---- MODULE Spec2Model ----
(***************************************************************************)
(* DNS-over-QUIC stream framing (crates/proto/src/quic/quic_stream.rs).    *)
(*                                                                         *)
(* One direction of a bidirectional QUIC stream is modelled: the           *)
(* send_stream of one QuicStream and the receive_stream of the QuicStream  *)
(* (or raw peer) at the other end.  The other direction is an independent  *)
(* copy of the same machine.                                               *)
(***************************************************************************)
EXTENDS Integers, Sequences, FiniteSets, TLC

(***************************************************************************)
(* Bounds of the model.                                                    *)
(***************************************************************************)
MaxSends == 2
MaxPeerWrites == 1
MaxRecvs == 3
MaxFinish == 2
MaxLargeSends == 1

(***************************************************************************)
(* Bytes and integer <-> byte conversions.                                 *)
(***************************************************************************)
\* octet k of n, octet 0 being the least significant
RECURSIVE OctetOf(_, _)
OctetOf(n, k) == IF k = 0 THEN n % 256 ELSE OctetOf(n \div 256, k - 1)

\* usize::to_ne_bytes on a target with the given pointer width and byte
\* order: `width` octets, least significant first on little-endian targets.
to_ne_bytes(n, width, endian) ==
    [i \in 1..width |->
        IF endian = "little"
        THEN OctetOf(n, i - 1)
        ELSE OctetOf(n, width - i)]

\* u16::from_ne_bytes([b1, b2]) on a target with the given byte order.
from_ne_bytes(b1, b2, endian) ==
    IF endian = "little" THEN b1 + 256 * b2 ELSE 256 * b1 + b2

\* a buffer never shorter than a DNS header: vec![0; len.max(12)]
zeroed_at_least_header(len) == [i \in 1..(IF len < 12 THEN 12 ELSE len) |-> 0]

\* vec![0; len]
zeroed(len) == [i \in 1..len |-> 0]

(***************************************************************************)
(* The DNS wire codec (op::Message): a 12-octet header (id, flags,         *)
(* qdcount, ancount, nscount, arcount, all big-endian) followed by the     *)
(* questions.  Messages of the model carry questions only.                 *)
(***************************************************************************)
HeaderLen == 12
MaxLabel == 63

u16_be(n) == <<(n \div 256) % 256, n % 256>>

read_u16(b, pos) == 256 * b[pos] + b[pos + 1]

RECURSIVE Concat(_, _, _)
Concat(ss, lo, hi) ==
    IF lo > hi THEN <<>>
    ELSE IF lo = hi THEN ss[lo]
    ELSE LET mid == (lo + hi) \div 2
         IN  Concat(ss, lo, mid) \o Concat(ss, mid + 1, hi)

emit_name(labels) ==
    Concat([i \in 1..Len(labels) |-> <<Len(labels[i])>> \o labels[i]], 1, Len(labels))
        \o <<0>>

emit_query(q) == emit_name(q.name) \o u16_be(q.qtype) \o u16_be(q.qclass)

\* Message::to_vec: fails on a label longer than 63 octets.
to_vec(m) ==
    LET bad == \E i \in 1..Len(m.queries) :
                   \E j \in 1..Len(m.queries[i].name) :
                       \/ Len(m.queries[i].name[j]) > MaxLabel
                       \/ Len(m.queries[i].name[j]) = 0
    IN  IF bad
        THEN [ok |-> FALSE, bytes |-> <<>>]
        ELSE [ok |-> TRUE,
              bytes |-> u16_be(m.id) \o u16_be(m.flags) \o u16_be(Len(m.queries))
                        \o <<0, 0, 0, 0, 0, 0>>
                        \o Concat([i \in 1..Len(m.queries) |-> emit_query(m.queries[i])],
                                  1, Len(m.queries))]

RECURSIVE read_name(_, _)
read_name(b, pos) ==
    IF pos > Len(b)
    THEN [ok |-> FALSE, labels |-> <<>>, next |-> pos]
    ELSE LET l == b[pos]
         IN  IF l = 0
             THEN [ok |-> TRUE, labels |-> <<>>, next |-> pos + 1]
             ELSE IF l > MaxLabel \/ pos + l > Len(b)
             THEN [ok |-> FALSE, labels |-> <<>>, next |-> pos]
             ELSE LET r == read_name(b, pos + 1 + l)
                  IN  [ok |-> r.ok,
                       labels |-> <<SubSeq(b, pos + 1, pos + l)>> \o r.labels,
                       next |-> r.next]

RECURSIVE read_queries(_, _, _)
read_queries(b, pos, n) ==
    IF n = 0
    THEN [ok |-> TRUE, queries |-> <<>>, next |-> pos]
    ELSE LET nm == read_name(b, pos)
         IN  IF ~nm.ok \/ nm.next + 3 > Len(b)
             THEN [ok |-> FALSE, queries |-> <<>>, next |-> pos]
             ELSE LET q == [name |-> nm.labels,
                            qtype |-> read_u16(b, nm.next),
                            qclass |-> read_u16(b, nm.next + 2)]
                      r == read_queries(b, nm.next + 4, n - 1)
                  IN  [ok |-> r.ok, queries |-> <<q>> \o r.queries, next |-> r.next]

NoMessage == [id |-> 0 - 1, flags |-> 0, queries |-> <<>>]

\* Message::from_vec: parses the header and the questions, ignores what
\* follows them; fails on a buffer shorter than what the header announces.
from_vec(b) ==
    IF Len(b) < HeaderLen
    THEN [ok |-> FALSE, msg |-> NoMessage]
    ELSE IF read_u16(b, 7) + read_u16(b, 9) + read_u16(b, 11) # 0
    THEN [ok |-> FALSE, msg |-> NoMessage]
    ELSE LET qs == read_queries(b, HeaderLen + 1, read_u16(b, 5))
         IN  IF ~qs.ok
             THEN [ok |-> FALSE, msg |-> NoMessage]
             ELSE [ok |-> TRUE,
                   msg |-> [id |-> read_u16(b, 1),
                            flags |-> read_u16(b, 3),
                            queries |-> qs.queries]]

\* Message::set_id
set_id(m, id) == [m EXCEPT !.id = id]

(***************************************************************************)
(* Inputs: the messages handed to send and the raw octets a peer that      *)
(* does not go through QuicStream::send may put on the stream.             *)
(***************************************************************************)
Label(n) == [j \in 1..n |-> 97]

Query(n) == [name |-> <<Label(n)>>, qtype |-> 1, qclass |-> 1]

\* a bare header, ID 0x1234, everything else zero: 12 octets
MsgHeader == [id |-> 4660, flags |-> 0, queries |-> <<>>]
\* a recursion-desired query for "a." with ID 0xBEEF: 19 octets
MsgQuery == [id |-> 48879, flags |-> 256, queries |-> <<Query(1)>>]
\* 949 questions of 69 octets and one of 43: 65536 octets
MsgTooLarge == [id |-> 7, flags |-> 256,
                queries |-> [i \in 1..950 |-> IF i < 950 THEN Query(63) ELSE Query(37)]]
\* a 64-octet label: the codec refuses to serialize it
MsgUnencodable == [id |-> 9, flags |-> 0, queries |-> <<Query(64)>>]

\* 949 questions of 69 octets and one of 42: 65535 octets, the largest frame
MsgLargest == [id |-> 8, flags |-> 256,
               queries |-> [i \in 1..950 |-> IF i < 950 THEN Query(63) ELSE Query(36)]]

Messages == {MsgHeader, MsgQuery, MsgUnencodable}

LargeMessages == {MsgLargest, MsgTooLarge}

FrameShort == <<0, 5, 65, 66, 67>>
FrameHeader == <<0, 12, 0, 0, 1, 0, 0, 0, 0, 0, 0, 0, 0, 0>>
FrameIdBeef == <<0, 12, 190, 239, 0, 0, 0, 0, 0, 0, 0, 0, 0, 0>>
FrameTwoOfOne == <<0, 2, 18>>
FrameOneOctet == <<0>>
FrameEmpty == <<0, 0>>

RawFrames == {FrameShort, FrameHeader, FrameIdBeef, FrameTwoOfOne, FrameOneOctet, FrameEmpty}

(***************************************************************************)
(* State.                                                                  *)
(***************************************************************************)
VARIABLES
    build,          \* the compilation target and the quinn API the build links
    writer,         \* what holds the far end: a QuicStream or a raw QUIC peer
    wire,           \* every octet written to the send side so far, in order
    closed,         \* the send side is finished: the reader sees end-of-stream
    rpos,           \* octets of wire the receive side has consumed
    finishCalls,    \* calls of QuicStream::finish so far
    peerWrites,     \* raw writes of the peer so far
    sendLog,        \* one record per call of QuicStream::send
    recvLog,        \* one record per call of QuicStream::receive
    finishLog,      \* one record per call of QuicStream::finish
    inflight,       \* the write_all_chunks of a send that is suspended
    cancelLog,      \* one record per send whose future was dropped
    codec           \* a conversion between VarInt and DoqErrorCode under way

vars == <<build, writer, wire, closed, rpos, finishCalls, peerWrites, sendLog, recvLog,
          finishLog, inflight, cancelLog, codec>>

\* no send is suspended
NoWrite == [active |-> FALSE, msg |-> NoMessage, len |-> 0, start |-> 0, rest |-> <<>>]

\* no conversion is under way
CodecIdle == [step |-> "idle"]

Builds == [endian : {"little", "big"}, usizeBytes : {4, 8}, lazyFinish : BOOLEAN]

Init ==
    /\ build \in Builds
    /\ writer \in {"QuicStream", "raw"}
    /\ wire = <<>>
    /\ closed = FALSE
    /\ rpos = 0
    /\ finishCalls = 0
    /\ peerWrites = 0
    /\ sendLog = <<>>
    /\ recvLog = <<>>
    /\ finishLog = <<>>
    /\ inflight = NoWrite
    /\ cancelLog = <<>>
    /\ codec = CodecIdle

(***************************************************************************)
(* QuicStream::send                                                        *)
(***************************************************************************)
\* the length chunk: bytes.len().to_ne_bytes()
LenChunk(n) == to_ne_bytes(n, build.usizeBytes, build.endian)

SendRecord(message, result, bytes, written) ==
    [msg |-> message, result |-> result, len |-> Len(bytes),
     start |-> Len(wire), written |-> written,
     afterFinish |-> finishCalls > 0]

\* send with the failure of to_vec swallowed (unwrap_or_default): an empty
\* payload is framed and written
send_unwrap_or_default(message) ==
    /\ writer = "QuicStream"
    /\ ~inflight.active
    /\ Len(sendLog) < MaxSends
    /\ LET ser == to_vec(set_id(message, 0))
           chunks == LenChunk(Len(ser.bytes)) \o ser.bytes
       IN  IF closed
           THEN /\ wire' = wire
                /\ sendLog' = Append(sendLog, SendRecord(message, "Io", ser.bytes, 0))
           ELSE /\ wire' = wire \o chunks
                /\ sendLog' = Append(sendLog,
                                     SendRecord(message, "Ok", ser.bytes, Len(chunks)))
    /\ UNCHANGED <<finishLog, inflight, cancelLog, codec, build, writer, closed, rpos, finishCalls, peerWrites, recvLog>>

send(message) ==
    /\ writer = "QuicStream"
    /\ ~inflight.active
    /\ Len(sendLog) < MaxSends
    /\ LET m0 == set_id(message, 0)
           ser == to_vec(m0)
           chunks == LenChunk(Len(ser.bytes)) \o ser.bytes
       IN  IF ~ser.ok
           THEN /\ wire' = wire
                /\ sendLog' = Append(sendLog, SendRecord(message, "Serialization", <<>>, 0))
           ELSE IF closed
           THEN \* write_all_chunks on a finished stream fails
                /\ wire' = wire
                /\ sendLog' = Append(sendLog, SendRecord(message, "Io", ser.bytes, 0))
           ELSE /\ wire' = wire \o chunks
                /\ sendLog' = Append(sendLog,
                                     SendRecord(message, "Ok", ser.bytes, Len(chunks)))
    /\ UNCHANGED <<finishLog, inflight, cancelLog, codec, build, writer, closed, rpos, finishCalls, peerWrites, recvLog>>

(***************************************************************************)
(* QuicStream::finish                                                      *)
(***************************************************************************)
\* finish with the answer of send_stream.finish() unwrapped: a second call on
\* a finished stream panics on ClosedStream
finish_unwrapped ==
    /\ writer = "QuicStream"
    /\ ~inflight.active
    /\ finishCalls < MaxFinish
    /\ finishCalls' = finishCalls + 1
    /\ closed' = IF build.lazyFinish THEN closed ELSE TRUE
    /\ finishLog' = Append(finishLog,
                           [result |-> IF closed THEN "panic" ELSE "Ok", finished |-> closed])
    /\ UNCHANGED <<inflight, cancelLog, codec, build, writer, wire, rpos, peerWrites, sendLog, recvLog>>

finish ==
    /\ writer = "QuicStream"
    /\ ~inflight.active
    /\ finishCalls < MaxFinish
    /\ finishCalls' = finishCalls + 1
    /\ closed' = IF build.lazyFinish THEN closed ELSE TRUE
    \* whatever send_stream.finish() answers is discarded: Ok(())
    /\ finishLog' = Append(finishLog, [result |-> "Ok", finished |-> closed])
    /\ UNCHANGED <<inflight, cancelLog, codec, build, writer, wire, rpos, peerWrites, sendLog, recvLog>>

(***************************************************************************)
(* The peer as a raw QUIC endpoint.                                        *)
(***************************************************************************)
PeerWrite(frame) ==
    /\ writer = "raw"
    /\ peerWrites < MaxPeerWrites
    /\ ~closed
    /\ wire' = wire \o frame
    /\ peerWrites' = peerWrites + 1
    /\ UNCHANGED <<finishLog, inflight, cancelLog, codec, build, writer, closed, rpos, finishCalls, sendLog, recvLog>>

PeerClose ==
    /\ writer = "raw"
    /\ ~closed
    /\ closed' = TRUE
    /\ UNCHANGED <<finishLog, inflight, cancelLog, codec, build, writer, wire, rpos, finishCalls, peerWrites, sendLog, recvLog>>

(***************************************************************************)
(* QuicStream::receive                                                     *)
(***************************************************************************)
RecvRecord(result, msg, id) ==
    [result |-> result, msg |-> msg, id |-> id,
     start |-> rpos, avail |-> Len(wire) - rpos, eof |-> closed,
     sends |-> Len(sendLog), finished |-> finishCalls > 0]

\* RecvStream::read_exact of n octets, awaited: the octets at the read
\* position, or FinishedEarly when the stream ends before n octets came.
read_exact(n) ==
    IF Len(wire) - rpos >= n
    THEN [ok |-> TRUE, data |-> SubSeq(wire, rpos + 1, rpos + n), pos |-> rpos + n]
    ELSE [ok |-> FALSE, data |-> <<>>, pos |-> Len(wire)]

\* a read_exact whose future is dropped without being polled: nothing is
\* read and the buffer keeps the zeroes it was created with
read_exact_dropped(n) == [ok |-> TRUE, data |-> zeroed(n), pos |-> rpos]

RecvLenUnawaited == read_exact_dropped(2)

\* let mut len = [0u8; 2]; receive_stream.read_exact(&mut len).await?
RecvLen == read_exact(2)

\* let mut bytes = vec![0; len]; receive_stream.read_exact(&mut bytes[..len]);
RecvPayload(len) == read_exact_dropped(len)

\* receive with the payload read awaited and the check of the ID left out:
\* whatever the codec parses from the frame is returned
receive_unchecked ==
    /\ Len(recvLog) < MaxRecvs
    /\ Len(wire) - rpos >= 2 \/ closed
    /\ LET hdr == RecvLen
       IN  IF ~hdr.ok
           THEN /\ rpos' = hdr.pos
                /\ recvLog' = Append(recvLog,
                                     RecvRecord("Io(UnexpectedEof)", NoMessage, 0))
           ELSE LET len == from_ne_bytes(hdr.data[1], hdr.data[2], build.endian)
                    got == Len(wire) - hdr.pos
                    parsed == from_vec(SubSeq(wire, hdr.pos + 1, hdr.pos + len))
                IN  /\ got >= len \/ closed
                    /\ IF got < len
                       THEN /\ rpos' = Len(wire)
                            /\ recvLog' = Append(recvLog,
                                   RecvRecord("Io(UnexpectedEof)", NoMessage, 0))
                       ELSE /\ rpos' = hdr.pos + len
                            /\ recvLog' = Append(recvLog,
                                   IF ~parsed.ok
                                   THEN RecvRecord("Serialization", NoMessage, 0)
                                   ELSE RecvRecord("Ok", parsed.msg, 0))
    /\ UNCHANGED <<finishLog, inflight, cancelLog, codec, build, writer, wire, closed, finishCalls, peerWrites, sendLog>>

receive ==
    /\ Len(recvLog) < MaxRecvs
    \* the awaited read of the length suspends until two octets or the end
    \* of the stream have arrived
    /\ Len(wire) - rpos >= 2 \/ closed
    /\ LET hdr == RecvLen
       IN  IF ~hdr.ok
           THEN /\ rpos' = hdr.pos
                /\ recvLog' = Append(recvLog,
                                     RecvRecord("Io(UnexpectedEof)", NoMessage, 0))
           ELSE LET len == from_ne_bytes(hdr.data[1], hdr.data[2], build.endian)
                    body == RecvPayload(len)
                    parsed == from_vec(body.data)
                IN  /\ rpos' = hdr.pos + (body.pos - rpos)
                    /\ recvLog' = Append(recvLog,
                           IF ~parsed.ok
                           THEN RecvRecord("Serialization", NoMessage, 0)
                           ELSE IF parsed.msg.id # 0
                           THEN RecvRecord("QuicMessageIdNot0", NoMessage, parsed.msg.id)
                           ELSE RecvRecord("Ok", parsed.msg, 0))
    /\ UNCHANGED <<finishLog, inflight, cancelLog, codec, build, writer, wire, closed, finishCalls, peerWrites, sendLog>>

Next ==
    \/ \E message \in Messages : send(message)
    \/ finish
    \/ \E frame \in RawFrames : PeerWrite(frame)
    \/ PeerClose
    \/ receive

Spec == Init /\ [][Next]_vars

(***************************************************************************)
(* The same stream driven with messages at the limit of the two-octet      *)
(* length field.                                                           *)
(***************************************************************************)
NextLarge ==
    \/ \E message \in LargeMessages : Len(sendLog) < MaxLargeSends /\ send(message)
    \/ finish
    \/ receive

SpecLarge == Init /\ [][NextLarge]_vars

(***************************************************************************)
(* A send that suspends between its two chunks, and its cancellation.      *)
(* write_all_chunks(&mut [len, bytes]) hands the chunks to the transport   *)
(* one after the other and suspends while flow control takes no more; the  *)
(* caller may drop the future of send at that point.                       *)
(***************************************************************************)
\* send up to the suspension: the length chunk is written, the payload waits
sendStart(message) ==
    /\ writer = "QuicStream"
    /\ ~inflight.active
    /\ Len(sendLog) + Len(cancelLog) < MaxSends
    /\ ~closed
    /\ LET ser == to_vec(set_id(message, 0))
           len == LenChunk(Len(ser.bytes))
       IN  /\ ser.ok
           /\ wire' = wire \o len
           /\ inflight' = [active |-> TRUE, msg |-> message, len |-> Len(ser.bytes),
                           start |-> Len(wire), rest |-> ser.bytes]
    /\ UNCHANGED <<finishLog, cancelLog, codec, build, writer, closed, rpos, finishCalls,
                   peerWrites, sendLog, recvLog>>

\* the transport takes the payload chunk and send returns Ok(())
sendResume ==
    /\ inflight.active
    /\ wire' = wire \o inflight.rest
    /\ sendLog' = Append(sendLog,
                         [msg |-> inflight.msg, result |-> "Ok", len |-> inflight.len,
                          start |-> inflight.start,
                          written |-> Len(wire) + Len(inflight.rest) - inflight.start,
                          afterFinish |-> finishCalls > 0])
    /\ inflight' = NoWrite
    /\ UNCHANGED <<finishLog, cancelLog, codec, build, writer, closed, rpos, finishCalls,
                   peerWrites, recvLog>>

\* the future of send is dropped: the chunks not yet written are lost, and
\* send_stream, a field of the QuicStream, is neither reset nor finished
sendCancel ==
    /\ inflight.active
    /\ cancelLog' = Append(cancelLog,
                           [start |-> inflight.start,
                            frame |-> build.usizeBytes + inflight.len,
                            written |-> Len(wire) - inflight.start,
                            reset |-> FALSE])
    /\ inflight' = NoWrite
    /\ UNCHANGED <<finishLog, codec, build, writer, wire, closed, rpos, finishCalls,
                   peerWrites, sendLog, recvLog>>

NextCancel ==
    \/ \E message \in Messages : sendStart(message)
    \/ sendResume
    \/ sendCancel
    \/ \E message \in Messages : send(message)
    \/ finish
    \/ receive

SpecCancel == Init /\ [][NextCancel]_vars

(***************************************************************************)
(* The DoQ error codes and their conversions to and from quinn's VarInt.   *)
(* A VarInt (62 bits) is four 16-bit limbs, most significant first; a u32  *)
(* is two.  0xd098ea5e is <<0xd098, 0xea5e>> = <<53400, 59998>>.           *)
(***************************************************************************)
NO_ERROR == <<0, 0>>
INTERNAL_ERROR == <<0, 1>>
PROTOCOL_ERROR == <<0, 2>>
REQUEST_CANCELLED == <<0, 3>>
EXCESSIVE_LOAD == <<0, 4>>
ERROR_RESERVED == <<53400, 59998>>

\* the variants of DoqErrorCode
Named(tag) == [tag |-> tag, code |-> <<>>]
Unknown(code) == [tag |-> "Unknown", code |-> code]

\* VarInt::from_u32
from_u32(code) == <<0, 0, code[1], code[2]>>

\* u64::try_into::<u32>() of VarInt::into_inner()
try_into_u32(v) ==
    IF v[1] = 0 /\ v[2] = 0
    THEN [ok |-> TRUE, code |-> <<v[3], v[4]>>]
    ELSE [ok |-> FALSE, code |-> <<0, 0>>]

\* the conversion written with the discriminants of the #[repr(u32)] enum:
\* ErrorReserved is the sixth variant, 5
VarInt_from_discriminant(doq_error) ==
    CASE doq_error.tag = "NoError" -> from_u32(<<0, 0>>)
      [] doq_error.tag = "InternalError" -> from_u32(<<0, 1>>)
      [] doq_error.tag = "ProtocolError" -> from_u32(<<0, 2>>)
      [] doq_error.tag = "RequestCancelled" -> from_u32(<<0, 3>>)
      [] doq_error.tag = "ExcessiveLoad" -> from_u32(<<0, 4>>)
      [] doq_error.tag = "ErrorReserved" -> from_u32(<<0, 5>>)
      [] doq_error.tag = "Unknown" -> from_u32(doq_error.code)

\* impl From<DoqErrorCode> for VarInt
VarInt_from(doq_error) ==
    CASE doq_error.tag = "NoError" -> from_u32(NO_ERROR)
      [] doq_error.tag = "InternalError" -> from_u32(INTERNAL_ERROR)
      [] doq_error.tag = "ProtocolError" -> from_u32(PROTOCOL_ERROR)
      [] doq_error.tag = "RequestCancelled" -> from_u32(REQUEST_CANCELLED)
      [] doq_error.tag = "ExcessiveLoad" -> from_u32(EXCESSIVE_LOAD)
      [] doq_error.tag = "ErrorReserved" -> from_u32(ERROR_RESERVED)
      [] doq_error.tag = "Unknown" -> from_u32(doq_error.code)

\* the match on the u32 code
match_code(code) ==
    IF code = NO_ERROR THEN Named("NoError")
    ELSE IF code = INTERNAL_ERROR THEN Named("InternalError")
    ELSE IF code = PROTOCOL_ERROR THEN Named("ProtocolError")
    ELSE IF code = REQUEST_CANCELLED THEN Named("RequestCancelled")
    ELSE IF code = EXCESSIVE_LOAD THEN Named("ExcessiveLoad")
    ELSE IF code = ERROR_RESERVED THEN Named("ErrorReserved")
    ELSE Unknown(code)

\* the conversion with the cast `as u32` in place of try_into: the upper
\* 32 bits are cut off
DoqErrorCode_from_truncating(doq_error) == match_code(<<doq_error[3], doq_error[4]>>)

\* the conversion with ProtocolError as the catch-all arm of the match
DoqErrorCode_from_catch_all(doq_error) ==
    LET code == try_into_u32(doq_error)
        v == match_code(code.code)
    IN  IF ~code.ok \/ v.tag = "Unknown" THEN Named("ProtocolError") ELSE v

\* the conversion without the ERROR_RESERVED arm of the match
DoqErrorCode_from_no_reserved(doq_error) ==
    LET code == try_into_u32(doq_error)
    IN  IF ~code.ok THEN Named("ProtocolError")
        ELSE IF code.code = ERROR_RESERVED THEN Unknown(code.code)
        ELSE match_code(code.code)

\* impl From<VarInt> for DoqErrorCode
DoqErrorCode_from(doq_error) ==
    LET code == try_into_u32(doq_error)
    IN  IF ~code.ok THEN Named("ProtocolError") ELSE match_code(code.code)

\* Inputs: VarInts around the known codes, around the 32-bit limit and up
\* to 2^62 - 1, and every variant over the 32-bit codes among them.
MaxLowCode == 6

Limb0 == (0..MaxLowCode) \cup {59997, 59998, 59999, 65535}
Limb1 == {0, 1, 53400, 65535}
Limb2 == {0, 1, 65535}
Limb3 == {0, 1, 16383}

VarInts == {<<w3, w2, w1, w0>> : w3 \in Limb3, w2 \in Limb2, w1 \in Limb1, w0 \in Limb0}

NamedTags == {"NoError", "InternalError", "ProtocolError", "RequestCancelled",
              "ExcessiveLoad", "ErrorReserved"}

DoqErrorCodes ==
    {Named(t) : t \in NamedTags} \cup {Unknown(<<w1, w0>>) : w1 \in Limb1, w0 \in Limb0}

NoVarInt == <<>>
NoDoqErrorCode == [tag |-> "none", code |-> <<>>]

InitCodec ==
    /\ build = [endian |-> "little", usizeBytes |-> 8, lazyFinish |-> FALSE]
    /\ writer = "QuicStream"
    /\ wire = <<>>
    /\ closed = FALSE
    /\ rpos = 0
    /\ finishCalls = 0
    /\ peerWrites = 0
    /\ sendLog = <<>>
    /\ recvLog = <<>>
    /\ finishLog = <<>>
    /\ inflight = NoWrite
    /\ cancelLog = <<>>
    /\ \/ \E v \in VarInts :
             codec = [step |-> "varint", varint |-> v, error |-> NoDoqErrorCode,
                      varint2 |-> NoVarInt, error2 |-> NoDoqErrorCode]
       \/ \E e \in DoqErrorCodes :
             codec = [step |-> "error", varint |-> NoVarInt, error |-> e,
                      varint2 |-> NoVarInt, error2 |-> NoDoqErrorCode]

streamVars == <<build, writer, wire, closed, rpos, finishCalls, peerWrites, sendLog,
                recvLog, finishLog, inflight, cancelLog>>

\* DoqErrorCode::from(varint)
Decode ==
    /\ codec.step = "varint"
    /\ codec' = [codec EXCEPT !.step = "decoded", !.error = DoqErrorCode_from(codec.varint)]
    /\ UNCHANGED streamVars

\* VarInt::from(DoqErrorCode::from(varint))
EncodeBack ==
    /\ codec.step = "decoded"
    /\ codec' = [codec EXCEPT !.step = "reencoded", !.varint2 = VarInt_from(codec.error)]
    /\ UNCHANGED streamVars

\* VarInt::from(error)
Encode ==
    /\ codec.step = "error"
    /\ codec' = [codec EXCEPT !.step = "encoded", !.varint = VarInt_from(codec.error)]
    /\ UNCHANGED streamVars

\* DoqErrorCode::from(VarInt::from(error))
DecodeBack ==
    /\ codec.step = "encoded"
    /\ codec' = [codec EXCEPT !.step = "redecoded", !.error2 = DoqErrorCode_from(codec.varint)]
    /\ UNCHANGED streamVars

NextCodec ==
    \/ Decode
    \/ EncodeBack
    \/ Encode
    \/ DecodeBack

SpecCodec == InitCodec /\ [][NextCodec]_vars

(***************************************************************************)
(* Properties.                                                             *)
(***************************************************************************)
\* the largest length a two-octet length field can carry (u16::MAX)
U16Max == 65535

\* the calls of send that returned Ok, in order
OkSends == SelectSeq(sendLog, LAMBDA s : s.result = "Ok")

\* the octets a successful send of message serializes: to_vec with ID 0
Payload(message) == to_vec(set_id(message, 0)).bytes

\* the length a frame at wire offset start announces, read big-endian
AnnouncedLen(start) == 256 * wire[start + 1] + wire[start + 2]

\* C1: a send(M) of a message of at most 65535 octets on a fresh stream,
\* followed by a receive at the other end, returns M with its ID set to 0.
\* (The statement of the claim; the code violates it.)
C1_RoundTripFraming ==
    (/\ writer = "QuicStream"
     /\ Len(OkSends) >= 1
     /\ OkSends[1].len <= U16Max
     /\ Len(recvLog) >= 1
     /\ recvLog[1].avail > 0)
    => /\ recvLog[1].result = "Ok"
       /\ recvLog[1].msg = set_id(OkSends[1].msg, 0)

\* C2: a successful send of a message serializing to B appends exactly
\* 2 + Len(B) octets: a two-octet prefix, then B, nothing else.
\* (The statement of the claim; the code violates it.)
C2_AppendsTwoPlusLen ==
    \A k \in 1..Len(sendLog) :
        sendLog[k].result = "Ok"
        => /\ sendLog[k].written = 2 + sendLog[k].len
           /\ SubSeq(wire, sendLog[k].start + 3, sendLog[k].start + sendLog[k].written)
                  = Payload(sendLog[k].msg)

\* C3: the first octet a successful send writes is len / 256 and the second
\* is len mod 256 (network byte order), on every target.
\* (The statement of the claim; the code violates it.)
C3_LengthBigEndian ==
    \A k \in 1..Len(sendLog) :
        sendLog[k].result = "Ok"
        => /\ wire[sendLog[k].start + 1] = (sendLog[k].len \div 256) % 256
           /\ wire[sendLog[k].start + 2] = sendLog[k].len % 256

\* C4: after a successful send the octets at offsets 2 and 3 of what it
\* wrote are 0x00 0x00 (the DNS header ID behind a two-octet prefix).
\* (The statement of the claim; the code violates it.)
C4_IdZeroAtOffsetTwo ==
    \A k \in 1..Len(sendLog) :
        sendLog[k].result = "Ok"
        => /\ wire[sendLog[k].start + 3] = 0
           /\ wire[sendLog[k].start + 4] = 0

\* C5: a send of a message that serializes to more than 65535 octets fails
\* with MessageTooLarge and writes nothing.
\* (The statement of the claim; the code violates it.)
C5_TooLargeRejected ==
    \A k \in 1..Len(sendLog) :
        sendLog[k].len > U16Max
        => /\ sendLog[k].result = "MessageTooLarge"
           /\ sendLog[k].written = 0

\* C6: a receive that finds the two-octet length but, the stream being
\* closed, fewer payload octets than the length announces (big-endian),
\* fails with Io(UnexpectedEof) and returns no message.
\* (The statement of the claim; the code violates it.)
C6_StrictLengthFraming ==
    \A r \in 1..Len(recvLog) :
        (/\ recvLog[r].eof
         /\ recvLog[r].avail >= 2
         /\ AnnouncedLen(recvLog[r].start) > recvLog[r].avail - 2)
        => /\ recvLog[r].result = "Io(UnexpectedEof)"
           /\ recvLog[r].msg = NoMessage

\* C7: a receive whose frame carries a well-formed DNS message with a
\* non-zero ID x fails with QuicMessageIdNot0(x) and returns no message.
\* (The statement of the claim; the code violates it.)
C7_IdZeroEnforced ==
    \A r \in 1..Len(recvLog) :
        (/\ recvLog[r].avail >= 2
         /\ AnnouncedLen(recvLog[r].start) <= recvLog[r].avail - 2)
        => LET st == recvLog[r].start
               carried == from_vec(SubSeq(wire, st + 3, st + 2 + AnnouncedLen(st)))
           IN  (carried.ok /\ carried.msg.id # 0)
               => /\ recvLog[r].result = "QuicMessageIdNot0"
                  /\ recvLog[r].id = carried.msg.id
                  /\ recvLog[r].msg = NoMessage

\* C8: a receive that meets the end of the stream before two octets of
\* length have arrived (none or one delivered) fails with Io(UnexpectedEof)
\* and returns no message.
C8_EofBeforeLength ==
    \A r \in 1..Len(recvLog) :
        (recvLog[r].eof /\ recvLog[r].avail < 2)
        => /\ recvLog[r].result = "Io(UnexpectedEof)"
           /\ recvLog[r].msg = NoMessage

\* a receive was called with one octet delivered and the stream closed,
\* and failed with Io(UnexpectedEof)
C8_Witness ==
    \E r \in 1..Len(recvLog) :
        /\ recvLog[r].eof
        /\ recvLog[r].avail = 1
        /\ recvLog[r].result = "Io(UnexpectedEof)"

\* C9: after successful sends M1..Mn and then finish, the k-th receive
\* returns Mk with ID 0 and starts at the k-th frame's first octet, and the
\* receive after the last frame fails with end-of-stream.
\* (The statement of the claim; the code violates it.)
C9_FramesInOrder ==
    \A r \in 1..Len(recvLog) :
        (/\ writer = "QuicStream"
         /\ recvLog[1].finished
         /\ \A k \in 1..Len(sendLog) : ~sendLog[k].afterFinish)
        => IF r <= Len(OkSends)
           THEN /\ recvLog[r].result = "Ok"
                /\ recvLog[r].msg = set_id(OkSends[r].msg, 0)
                /\ recvLog[r].start = OkSends[r].start
           ELSE recvLog[r].result = "Io(UnexpectedEof)"

\* C10: every send called after finish has been called is rejected with
\* an error and appends nothing.
\* (The statement of the claim; the code violates it.)
C10_SendAfterFinishRejected ==
    \A k \in 1..Len(sendLog) :
        sendLog[k].afterFinish
        => /\ sendLog[k].result # "Ok"
           /\ sendLog[k].written = 0
\* C11: a finish called on a stream that an earlier finish has finished
\* returns (Ok or an error, no panic), leaves the send side finished and
\* leaves the octets queued so far as they are.
C11_FinishIdempotent ==
    [][(/\ Len(finishLog') = Len(finishLog) + 1
        /\ Len(finishLog) >= 1
        /\ closed)
       => /\ finishLog'[Len(finishLog')].result \in {"Ok", "Err"}
          /\ closed'
          /\ wire' = wire]_vars

\* finish was called a second time on a finished stream that holds a frame
C11_Witness ==
    /\ Len(finishLog) = 2
    /\ finishLog[2].finished
    /\ closed
    /\ Len(wire) > 0
\* C12: a send cancelled at the suspension point between its chunks has
\* either put its whole frame (length and payload) on the send side, or
\* the stream is reset.
\* (The statement of the claim; the code violates it.)
C12_CancelKeepsFraming ==
    \A c \in 1..Len(cancelLog) :
        cancelLog[c].written = cancelLog[c].frame \/ cancelLog[c].reset
\* C13: a send of a message the codec fails to serialize fails with a
\* Serialization error, writes no octet and leaves the send side as it was.
C13_SerializationFailureWritesNothing ==
    [][(/\ Len(sendLog') = Len(sendLog) + 1
        /\ ~to_vec(set_id(sendLog'[Len(sendLog')].msg, 0)).ok)
       => /\ sendLog'[Len(sendLog')].result = "Serialization"
          /\ sendLog'[Len(sendLog')].written = 0
          /\ wire' = wire
          /\ closed' = closed]_vars

\* a send failed with Serialization on a stream that already holds a frame
C13_Witness ==
    \E k \in 1..Len(sendLog) :
        /\ sendLog[k].result = "Serialization"
        /\ sendLog[k].start > 0
        /\ Len(wire) = sendLog[k].start
\* C17: a message that receive returns successfully has ID 0, whatever
\* octets the receive side holds.
C17_ReceivedIdIsZero ==
    \A r \in 1..Len(recvLog) :
        recvLog[r].result = "Ok" => recvLog[r].msg.id = 0

\* receive returned a message from a frame whose ID octets are BE EF
C17_Witness ==
    \E r \in 1..Len(recvLog) :
        /\ recvLog[r].result = "Ok"
        /\ recvLog[r].avail >= 4
        /\ wire[recvLog[r].start + 3] = 190
        /\ wire[recvLog[r].start + 4] = 239

\* C18: a receive that finds the length prefix 00 00 passes an empty
\* payload to the codec, fails with Serialization and returns no message.
C18_ZeroLengthFrameFails ==
    \A r \in 1..Len(recvLog) :
        (/\ recvLog[r].avail >= 2
         /\ wire[recvLog[r].start + 1] = 0
         /\ wire[recvLog[r].start + 2] = 0)
        => /\ recvLog[r].result = "Serialization"
           /\ recvLog[r].msg = NoMessage

\* the peer wrote the frame 00 00 and a receive of it failed
C18_Witness ==
    /\ writer = "raw"
    /\ Len(recvLog) >= 1
    /\ recvLog[1].avail = 2
    /\ wire = FrameEmpty
    /\ recvLog[1].result = "Serialization"

\* the codes tabulated for the named variants, as VarInts
CodeTable ==
    [NoError |-> <<0, 0, 0, 0>>, InternalError |-> <<0, 0, 0, 1>>,
     ProtocolError |-> <<0, 0, 0, 2>>, RequestCancelled |-> <<0, 0, 0, 3>>,
     ExcessiveLoad |-> <<0, 0, 0, 4>>, ErrorReserved |-> <<0, 0, 53400, 59998>>]

KnownVarInts == {CodeTable[t] : t \in DOMAIN CodeTable}

\* the VarInt is below 2^32
Fits32(v) == v[1] = 0 /\ v[2] = 0

\* C14: for every named variant v, encode(v) is the code tabulated for v
\* and decode(encode(v)) is v.
C14_NamedRoundTrip ==
    (codec.step \in {"encoded", "redecoded"} /\ codec.error.tag \in DOMAIN CodeTable)
    => /\ codec.varint = CodeTable[codec.error.tag]
       /\ codec.step = "redecoded" => codec.error2 = codec.error

\* ErrorReserved was encoded to 0xd098ea5e and decoded back
C14_Witness ==
    /\ codec.step = "redecoded"
    /\ codec.error = [tag |-> "ErrorReserved", code |-> <<>>]
    /\ codec.varint = <<0, 0, 53400, 59998>>

\* C15: for every raw code below 2^32 that is none of the six known codes,
\* decode(raw) is Unknown(raw) and encode(Unknown(raw)) is raw.
C15_UnknownRoundTrip ==
    /\ (/\ codec.step \in {"decoded", "reencoded"}
        /\ Fits32(codec.varint)
        /\ codec.varint \notin KnownVarInts)
       => /\ codec.error = [tag |-> "Unknown", code |-> <<codec.varint[3], codec.varint[4]>>]
          /\ codec.step = "reencoded" => codec.varint2 = codec.varint
    /\ (/\ codec.step \in {"encoded", "redecoded"}
        /\ codec.error.tag = "Unknown"
        /\ <<0, 0>> \o codec.error.code \notin KnownVarInts)
       => codec.varint = <<0, 0>> \o codec.error.code

\* 5 was decoded to Unknown(5) and encoded back to 5
C15_Witness ==
    /\ codec.step = "reencoded"
    /\ codec.varint = <<0, 0, 0, 5>>
    /\ codec.error = [tag |-> "Unknown", code |-> <<0, 5>>]
    /\ codec.varint2 = <<0, 0, 0, 5>>

\* C16: every raw code of 2^32 or more decodes to ProtocolError.
C16_WideIsProtocolError ==
    (codec.step \in {"decoded", "reencoded"} /\ ~Fits32(codec.varint))
    => codec.error = [tag |-> "ProtocolError", code |-> <<>>]

\* 0x1_0000_0005, whose low 32 bits are an unknown code, was decoded
C16_Witness ==
    /\ codec.step = "decoded"
    /\ codec.varint = <<0, 1, 0, 5>>
    /\ codec.error.tag = "ProtocolError"

\* C19: encode(decode(raw)) is raw for every raw code below 2^32, known or
\* not; and for a known code c, Unknown(c) encodes to the code of the named
\* variant and decodes back to the named variant, not to Unknown(c).
C19_DecodeInjectiveEncodeNot ==
    /\ (codec.step = "reencoded" /\ Fits32(codec.varint))
       => codec.varint2 = codec.varint
    /\ (/\ codec.step = "redecoded"
        /\ codec.error.tag = "Unknown"
        /\ <<0, 0>> \o codec.error.code \in KnownVarInts)
       => /\ codec.varint = <<0, 0>> \o codec.error.code
          /\ codec.error2.tag \in DOMAIN CodeTable
          /\ CodeTable[codec.error2.tag] = codec.varint
          /\ codec.error2 # codec.error

\* Unknown(0xd098ea5e) was encoded and came back as ErrorReserved
C19_Witness ==
    /\ codec.step = "redecoded"
    /\ codec.error = [tag |-> "Unknown", code |-> <<53400, 59998>>]
    /\ codec.error2.tag = "ErrorReserved"

====
